---------------------------- MODULE Spec2Model ----------------------------
(***************************************************************************)
(* Request lifecycle (app/shared/request_service.py), timeline messages    *)
(* (app/shared/mitra_ai_service.py) and bin auto-generation                *)
(* (app/shared/bin_service.py, app/shared/database.py).                    *)
(*                                                                         *)
(* One service request is followed from create_service_request through    *)
(* the background pipeline and the worker-driven update_request_progress   *)
(* calls.  Every await of the code is a step boundary; every database call *)
(* and every call of the text-generation collaborator may raise, and the   *)
(* collaborator may also never return.                                     *)
(***************************************************************************)
EXTENDS Integers, Sequences, FiniteSets, TLC

(***************************************************************************)
(* Bounds of the model.                                                    *)
(***************************************************************************)
\* number of update_request_progress calls a behaviour may hold
MaxWorkerCalls == 1
\* number of collaborator calls (database, text generation) that may fail in
\* one behaviour: a database call raising, a generation call raising or hanging
MaxFaults == 1
\* number of create_bins_for_new_worker calls a behaviour may hold
MaxBinCalls == 3
\* number of create_service_request calls followed for their request ids
MaxCreateCalls == 2
\* number of update_request_progress(request, "completed", ...) calls followed
\* for the tracking documents
MaxCompletions == 2
\* number of operations on the stored bins that are followed
MaxBinEvents == 3
\* the longest time since a collection, in hours, a bin is scored with (the
\* time component is capped from 72 hours on)
MaxHours == 75

(***************************************************************************)
(* Values.                                                                 *)
(***************************************************************************)
None == "None"

\* the user_type values a request is created with
UserTypes == {"citizen", "government"}

\* the steps a worker reports through update_request_progress
WorkerSteps == {"en_route", "completed", "payment_processed"}

\* the roles a timeline is read for
Roles == {"citizen", "user", "worker", "government"}

Procs == {"pipeline", "worker"}

AI_TEXT == "AI_TEXT"

VARIABLES
    create_pc,          \* position of create_service_request
    request_data,       \* its local request_data (also handed to the pipeline)
    service_requests,   \* the request document of db.service_requests
    user_requests,      \* the tracking document of db.user_requests
    request_timelines,  \* the timeline document of db.request_timelines
    pc,                 \* position of the pipeline task and of the worker call
    ats,                \* the frame of the running _add_timeline_step, per process
    init_msg,           \* local ai_message of _initialize_ai_timeline, and
                        \* what the collaborator did to produce it
    hung,               \* processes whose generation call never returns
    pipe_exc,           \* the exception caught by the pipeline's handler
    worker_call,        \* [n, step, raised] of update_request_progress calls
    db_faults,          \* database calls that raised so far
    groq_faults,        \* generation calls that raised or hung so far
    hist,               \* history: counters over the timeline writes and calls
    bin_svc,            \* BinManagementService: db, bins_collection
    bins,               \* the documents of db.bins
    bin_calls,          \* the create_bins_for_new_worker calls, in call order
    bin_events,         \* number of calls that report on or accept a bin
    bin_last_op,        \* history: the last operation on a bin, and the bin before it
    bin_result,         \* history: the last get_priority_bins_for_collection call
    id_store,           \* db.service_requests, as the request ids of its documents
    id_call,            \* the create_service_request calls: position and locals
    id_faults,          \* database calls of those calls that raised so far
    prio_in,            \* the bin_data handed to _calculate_real_priority
    prio_out,           \* what it returned
    calc_in,            \* the argument of the estimate last computed
    calc_out,           \* what the estimate returned
    trk_store,          \* db.service_requests, several requests: the documents
    trk_user,           \* db.user_requests: the tracking document of each user
    trk_calls,          \* history: the create_service_request calls
    trk_completions,    \* history: the completions handled, by stored request
    trk_faults          \* database calls of these calls that raised so far

reqVars == <<create_pc, request_data, service_requests, user_requests,
             request_timelines, pc, ats, init_msg, hung, pipe_exc,
             worker_call, db_faults, groq_faults, hist>>
binVars == <<bin_svc, bins, bin_calls, bin_events, bin_last_op, bin_result>>
idVars == <<id_store, id_call, id_faults>>
prioVars == <<prio_in, prio_out>>
calcVars == <<calc_in, calc_out>>
trkVars == <<trk_store, trk_user, trk_calls, trk_completions, trk_faults>>
\* what the request lifecycle leaves alone
otherVars == <<binVars, idVars, prioVars, calcVars, trkVars>>
vars == <<reqVars, binVars, idVars, prioVars, calcVars, trkVars>>

(***************************************************************************)
(* mitra_ai_service.py                                                     *)
(***************************************************************************)
\* str.replace('_', ' ').title() on the step names the program uses
Title(step) ==
    CASE step = "submitted" -> "Submitted"
      [] step = "ai_analyzing" -> "Ai Analyzing"
      [] step = "worker_matching" -> "Worker Matching"
      [] step = "worker_assigned" -> "Worker Assigned"
      [] step = "en_route" -> "En Route"
      [] step = "completed" -> "Completed"
      [] step = "payment_processed" -> "Payment Processed"
      [] step = "impact_calculated" -> "Impact Calculated"
      [] step = "processing_error" -> "Processing Error"
      [] OTHER -> step

\* the fallback_messages table
fallback_messages ==
    [citizen |-> [submitted |-> "MITRA: Request received! Processing...",
                  ai_analyzing |-> "MITRA: Analyzing images...",
                  worker_matching |-> "MITRA: Finding CleanGuard...",
                  completed |-> "MITRA: Great job! Dharani thanks you!"],
     worker |-> [job_available |-> "MITRA: New job available!",
                 job_accepted |-> "MITRA: Job accepted! Navigate to location.",
                 completed |-> "MITRA: Payment credited! Well done!"],
     government |-> [daily_summary |-> "MITRA: Daily report ready.",
                     efficiency_update |-> "MITRA: Performance metrics updated."]]

_get_fallback_message(user_type, step) ==
    IF user_type \in DOMAIN fallback_messages
       /\ step \in DOMAIN fallback_messages[user_type]
    THEN fallback_messages[user_type][step]
    ELSE "MITRA: " \o Title(step) \o " update"

\* a faulty variant: the except branch hands back an empty message
generate_timeline_message_NoFallback(user_type, step, groq) ==
    IF groq = "ok" THEN AI_TEXT ELSE ""

\* groq is what the collaborator does for this call: "ok" or "raise"
generate_timeline_message(user_type, step, groq) ==
    IF groq = "ok" THEN AI_TEXT ELSE _get_fallback_message(user_type, step)

(***************************************************************************)
(* request_service.py: pure parts                                          *)
(***************************************************************************)
_get_step_visibility(step) ==
    CASE step \in {"submitted", "ai_analyzing"} ->
             [user |-> TRUE, worker |-> FALSE, government |-> TRUE]
      [] step = "payment_processed" ->
             [user |-> FALSE, worker |-> TRUE, government |-> TRUE]
      [] OTHER -> [user |-> TRUE, worker |-> TRUE, government |-> TRUE]

\* one element of timeline_doc["steps"]
TimelineStep(step, ai_message, context) ==
    LET visibility == _get_step_visibility(step) IN
    [step |-> step, ai_message |-> ai_message, context |-> context,
     user_visible |-> visibility.user,
     worker_visible |-> visibility.worker,
     government_visible |-> visibility.government]

\* step.get(f"{user_type}_visible", True)
StepGetVisible(s, user_type) ==
    CASE user_type = "user" -> s.user_visible
      [] user_type = "worker" -> s.worker_visible
      [] user_type = "government" -> s.government_visible
      [] OTHER -> TRUE

get_request_timeline(user_type) ==
    IF ~request_timelines.exists THEN <<>>
    ELSE SelectSeq(request_timelines.steps,
                   LAMBDA s : StepGetVisible(s, user_type))

(***************************************************************************)
(* request_service.py: documents                                           *)
(***************************************************************************)
YEAR == "2025"

\* str(n), for the numbers a count can be
Digit(d) ==
    CASE d = 0 -> "0" [] d = 1 -> "1" [] d = 2 -> "2" [] d = 3 -> "3"
      [] d = 4 -> "4" [] d = 5 -> "5" [] d = 6 -> "6" [] d = 7 -> "7"
      [] d = 8 -> "8" [] d = 9 -> "9"

Str(n) ==
    IF n < 10 THEN Digit(n)
    ELSE IF n < 100 THEN Digit(n \div 10) \o Digit(n % 10)
    ELSE Digit(n \div 100) \o Digit((n \div 10) % 10) \o Digit(n % 10)

\* str(n).zfill(3)
ZFill3(n) ==
    IF n < 10 THEN "00" \o Str(n) ELSE IF n < 100 THEN "0" \o Str(n) ELSE Str(n)

\* str(uuid.uuid4())[:8].upper(): two of the values it can take
UuidSuffixes == {"3F2A9C1B", "A07D44E2"}

\* a faulty variant: the sequence number is the count itself
_generate_request_id_NoIncrement(count_ok, count, uuid8) ==
    IF count_ok
    THEN "WR_" \o YEAR \o "_" \o ZFill3(count)
    ELSE "WR_" \o YEAR \o "_" \o uuid8

\* a faulty variant: a failure of the count query leaves the function
_generate_request_id_Raises(count_ok, count, uuid8) ==
    IF count_ok
    THEN "WR_" \o YEAR \o "_" \o ZFill3(count + 1)
    ELSE "Exception"

\* count is what count_documents({"request_id": {"$regex": "^WR_<year>_"}})
\* returned; when the query raised, the except returns the uuid form
_generate_request_id(count_ok, count, uuid8) ==
    IF count_ok
    THEN "WR_" \o YEAR \o "_" \o ZFill3(count + 1)
    ELSE "WR_" \o YEAR \o "_" \o uuid8

\* the request ids the regex ^WR_<year>_ matches: the ids of the two forms
\* made for that year
MatchesYear(request_id, year) ==
    \E suffix \in {ZFill3(n) : n \in 1..999} \cup UuidSuffixes :
        request_id = "WR_" \o year \o "_" \o suffix

\* the callers of create_service_request followed for their ids
Callers == 1..MaxCreateCalls

NoIdCall == [pc |-> "idle", request_id |-> None, count_ok |-> TRUE,
             count |-> 0, seen |-> 0, overlap |-> FALSE]

\* db.service_requests before the calls: the request ids stored, here one of
\* the year before
InitialRequestIds == <<"WR_2024_007">>

NoRequest ==
    [exists |-> FALSE, request_id |-> None, user_type |-> None,
     status |-> None, priority |-> None, waste_analysis |-> None,
     assigned_worker |-> None, environmental_impact |-> None]

\* request_data of create_service_request, as inserted
RequestDocument(rd) ==
    [exists |-> TRUE, request_id |-> rd.request_id, user_type |-> rd.user_type,
     status |-> "submitted", priority |-> "medium", waste_analysis |-> None,
     assigned_worker |-> None, environmental_impact |-> None]

NoTimeline == [exists |-> FALSE, steps |-> <<>>, current_step |-> None]

NoUserRequests ==
    [exists |-> FALSE, total_requests |-> 0, active_requests |-> 0,
     completed_requests |-> 0]

\* a faulty variant: the update replaces the steps instead of pushing onto them
PushStep_Overwrite(doc, entry) ==
    [doc EXCEPT !.steps = <<entry>>, !.current_step = entry.step]

\* update_one({"$push": {"steps": ...}, "$set": {"current_step": ...}})
PushStep(doc, entry) ==
    [doc EXCEPT !.steps = Append(@, entry), !.current_step = entry.step]

NoFrame ==
    [phase |-> "none", step |-> "", user_type |-> "", context |-> "",
     ai_message |-> "", groq |-> ""]

Frame(step, user_type, context) ==
    [phase |-> "gen", step |-> step, user_type |-> user_type,
     context |-> context, ai_message |-> "", groq |-> ""]

\* the bin operations: nothing done yet
\* a last_collection_time of None: the bin was never collected
NoTime == -1
\* no score computed yet
NoScore == -1
\* collected: the bin ids of the collection events reported for stored bins
NoBinOp == [op |-> "none", bin_id |-> None, time |-> 0, before |-> {},
            collected |-> <<>>]

NoBinResult == [done |-> FALSE, area |-> None, city |-> None, now |-> 0,
                seen |-> {}, result |-> <<>>]

NoBinData == [current_fill_level |-> 0, last_collection_time |-> NoTime,
              status |-> None, avg_daily_waste |-> 0, now |-> 0]

\* no estimate computed yet
NoCalc == [op |-> "none"]

\* the users whose requests are followed
Users == {"user_1", "user_2"}

NoHist ==
    [steps_performed |-> 0, writes_ok |-> 0, gen_returned |-> 0,
     gen_at_return |-> 0, pipe_raised |-> FALSE, err_write |-> "none",
     gen_log |-> <<>>]

\* what a database call may do: return, or raise while faults are left
DbOutcomes == IF db_faults + groq_faults < MaxFaults THEN {TRUE, FALSE} ELSE {TRUE}

Fault(ok) == db_faults' = db_faults + (IF ok THEN 0 ELSE 1)

\* what the text-generation collaborator may do when it answers
GroqOutcomes == IF db_faults + groq_faults < MaxFaults THEN {"ok", "raise"} ELSE {"ok"}

GroqFault(groq) == groq_faults' = groq_faults + (IF groq = "ok" THEN 0 ELSE 1)

Init ==
    /\ create_pc = "idle"
    /\ request_data = [request_id |-> None, user_type |-> None, images |-> FALSE]
    /\ service_requests = NoRequest
    /\ user_requests = NoUserRequests
    /\ request_timelines = NoTimeline
    /\ pc = [p \in Procs |-> IF p = "pipeline" THEN "none" ELSE "idle"]
    /\ ats = [p \in Procs |-> NoFrame]
    /\ init_msg = [ai_message |-> "", groq |-> ""]
    /\ hung = {}
    /\ pipe_exc = None
    /\ worker_call = [n |-> 0, step |-> None, raised |-> FALSE]
    /\ db_faults = 0
    /\ groq_faults = 0
    /\ hist = NoHist
    /\ bin_svc = [db |-> None, bins_collection |-> None]
    /\ bins = {}
    /\ bin_calls = <<>>
    /\ bin_events = 0
    /\ bin_last_op = NoBinOp
    /\ bin_result = NoBinResult
    /\ id_store = InitialRequestIds
    /\ id_call = [c \in Callers |-> NoIdCall]
    /\ id_faults = 0
    /\ prio_in = NoBinData
    /\ prio_out = NoScore
    /\ calc_in = NoCalc
    /\ calc_out = NoCalc
    /\ trk_store = <<>>
    /\ trk_user = [u \in Users |-> NoUserRequests]
    /\ trk_calls = <<>>
    /\ trk_completions = <<>>
    /\ trk_faults = 0

(***************************************************************************)
(* create_service_request                                                  *)
(***************************************************************************)
\* the call, with its arguments
CreateCall ==
    /\ create_pc = "idle"
    /\ \E user_type \in UserTypes, images \in BOOLEAN :
          request_data' = [request_id |-> None, user_type |-> user_type,
                           images |-> images]
    /\ create_pc' = "gen_id"
    /\ UNCHANGED <<groq_faults, service_requests, user_requests, request_timelines, pc, ats,
                   init_msg, hung, pipe_exc, worker_call, db_faults, hist>>
    /\ UNCHANGED otherVars

\* request_id = await self._generate_request_id()
CreateGenerateId ==
    /\ create_pc = "gen_id"
    /\ \E ok \in DbOutcomes :
          /\ request_data' =
                [request_data EXCEPT !.request_id =
                    _generate_request_id(ok,
                                         IF service_requests.exists THEN 1 ELSE 0,
                                         "3F2A9C1B")]
          /\ Fault(ok)
    /\ create_pc' = "insert"
    /\ UNCHANGED <<groq_faults, service_requests, user_requests, request_timelines, pc, ats,
                   init_msg, hung, pipe_exc, worker_call, hist>>
    /\ UNCHANGED otherVars

\* a faulty variant: a failure of the insert is logged and the call goes on
CreateInsert_Swallowed ==
    /\ create_pc = "insert"
    /\ \E ok \in DbOutcomes :
          /\ Fault(ok)
          /\ service_requests' = IF ok THEN RequestDocument(request_data)
                                 ELSE service_requests
          /\ create_pc' = "update_user"
    /\ UNCHANGED <<groq_faults, request_data, user_requests, request_timelines, pc, ats,
                   init_msg, hung, pipe_exc, worker_call, hist>>
    /\ UNCHANGED otherVars

\* await self.db[self.requests_collection].insert_one(request_data);
\* a failure is re-raised to the caller by the outer except
CreateInsert ==
    /\ create_pc = "insert"
    /\ \E ok \in DbOutcomes :
          /\ Fault(ok)
          /\ IF ok
             THEN /\ service_requests' = RequestDocument(request_data)
                  /\ create_pc' = "update_user"
             ELSE /\ create_pc' = "raised"
                  /\ UNCHANGED service_requests
    /\ UNCHANGED <<groq_faults, request_data, user_requests, request_timelines, pc, ats,
                   init_msg, hung, pipe_exc, worker_call, hist>>
    /\ UNCHANGED otherVars

\* await self._update_user_requests(user_id, request_id, "add"): an upsert;
\* its own except logs a failure and returns
CreateUpdateUser ==
    /\ create_pc = "update_user"
    /\ \E ok \in DbOutcomes :
          /\ Fault(ok)
          /\ user_requests' =
                IF ok
                THEN [user_requests EXCEPT !.exists = TRUE,
                                           !.total_requests = @ + 1,
                                           !.active_requests = @ + 1]
                ELSE user_requests
    /\ create_pc' = "init_gen"
    /\ UNCHANGED <<groq_faults, request_data, service_requests, request_timelines, pc, ats,
                   init_msg, hung, pipe_exc, worker_call, hist>>
    /\ UNCHANGED otherVars

\* _initialize_ai_timeline: ai_message = await generate_timeline_message(...)
CreateInitGenerate ==
    /\ create_pc = "init_gen"
    /\ "create" \notin hung
    /\ \E groq \in GroqOutcomes :
          /\ init_msg' =
                [ai_message |-> generate_timeline_message(request_data.user_type,
                                                          "submitted", groq),
                 groq |-> groq]
          /\ GroqFault(groq)
    /\ hist' = [hist EXCEPT !.gen_returned = @ + 1]
    /\ create_pc' = "init_insert"
    /\ UNCHANGED <<request_data, service_requests, user_requests,
                   request_timelines, pc, ats, hung, pipe_exc, worker_call,
                   db_faults>>
    /\ UNCHANGED otherVars

\* the collaborator never answers: run_in_executor is awaited without a timeout
CreateInitHang ==
    /\ create_pc = "init_gen"
    /\ "create" \notin hung
    /\ db_faults + groq_faults < MaxFaults
    /\ GroqFault("hang")
    /\ hung' = hung \cup {"create"}
    /\ UNCHANGED <<create_pc, request_data, service_requests, user_requests,
                   request_timelines, pc, ats, init_msg, pipe_exc, worker_call,
                   db_faults, hist>>
    /\ UNCHANGED otherVars

\* _initialize_ai_timeline: insert_one(timeline_doc); its except logs a failure
CreateInitInsert ==
    /\ create_pc = "init_insert"
    /\ \E ok \in DbOutcomes :
          /\ Fault(ok)
          /\ request_timelines' =
                IF ok
                THEN [exists |-> TRUE,
                      steps |-> <<TimelineStep("submitted",
                                               init_msg.ai_message, None)>>,
                      current_step |-> "submitted"]
                ELSE request_timelines
          /\ hist' = [hist EXCEPT
                        !.steps_performed = @ + 1,
                        !.writes_ok = @ + (IF ok THEN 1 ELSE 0),
                        !.gen_log = IF ok
                                    THEN <<[user_type |-> request_data.user_type,
                                            groq |-> init_msg.groq]>>
                                    ELSE @]
    /\ create_pc' = "create_task"
    /\ UNCHANGED <<groq_faults, request_data, service_requests, user_requests, pc, ats,
                   init_msg, hung, pipe_exc, worker_call>>
    /\ UNCHANGED otherVars

\* a faulty variant: the pipeline is awaited instead of handed to create_task
CreateTaskAndReturn_Awaited ==
    /\ create_pc = "create_task"
    /\ pc' = [pc EXCEPT !["pipeline"] = "assign_worker"]
    /\ create_pc' = "returned"
    /\ hist' = [hist EXCEPT !.gen_at_return = hist.gen_returned]
    /\ UNCHANGED <<groq_faults, request_data, service_requests, user_requests,
                   request_timelines, ats, init_msg, hung, pipe_exc,
                   worker_call, db_faults>>
    /\ UNCHANGED otherVars

\* asyncio.create_task(self._process_request_pipeline(...)); return request_id
\* (no await lies between the two: the task has not run when the call returns)
CreateTaskAndReturn ==
    /\ create_pc = "create_task"
    /\ pc' = [pc EXCEPT !["pipeline"] = "scheduled"]
    /\ create_pc' = "returned"
    /\ hist' = [hist EXCEPT !.gen_at_return = hist.gen_returned]
    /\ UNCHANGED <<groq_faults, request_data, service_requests, user_requests,
                   request_timelines, ats, init_msg, hung, pipe_exc,
                   worker_call, db_faults>>
    /\ UNCHANGED otherVars

(***************************************************************************)
(* _add_timeline_step, run by the pipeline and by update_request_progress  *)
(***************************************************************************)
\* where the caller goes on when _add_timeline_step returns (it never raises:
\* its own except logs and returns)
AfterAts(at) ==
    CASE at = "analyzing_ats" -> "update_analysis"
      [] at = "matching_ats" -> "assign_worker"
      [] at = "assigned_ats" -> "update_status"
      [] at = "error_ats" -> "halted"
      [] at = "progress_ats" -> "status_update"
      [] at = "impact_ats" -> "idle"

\* ai_message = await self.mitra.generate_timeline_message(...)
AtsGenerate(p) ==
    /\ ats[p].phase = "gen"
    /\ p \notin hung
    /\ \E groq \in GroqOutcomes :
          /\ ats' = [ats EXCEPT ![p].ai_message =
                                    generate_timeline_message(ats[p].user_type,
                                                              ats[p].step, groq),
                                ![p].groq = groq,
                                ![p].phase = "push"]
          /\ GroqFault(groq)
    /\ hist' = [hist EXCEPT !.gen_returned = @ + 1]
    /\ UNCHANGED <<create_pc, request_data, service_requests, user_requests,
                   request_timelines, pc, init_msg, hung, pipe_exc, worker_call,
                   db_faults>>
    /\ UNCHANGED otherVars

\* the collaborator never answers: run_in_executor is awaited without a timeout
AtsHang(p) ==
    /\ ats[p].phase = "gen"
    /\ p \notin hung
    /\ db_faults + groq_faults < MaxFaults
    /\ GroqFault("hang")
    /\ hung' = hung \cup {p}
    /\ UNCHANGED <<create_pc, request_data, service_requests, user_requests,
                   request_timelines, pc, ats, init_msg, pipe_exc, worker_call,
                   db_faults, hist>>
    /\ UNCHANGED otherVars

\* update_one({"request_id": request_id}, {"$push": ..., "$set": ...}): without
\* a timeline document nothing matches; a failure is logged by the except
AtsPush(p) ==
    /\ ats[p].phase = "push"
    /\ \E ok \in DbOutcomes :
          LET written == ok /\ request_timelines.exists
              entry == TimelineStep(ats[p].step, ats[p].ai_message,
                                    ats[p].context)
          IN
          /\ Fault(ok)
          /\ request_timelines' =
                IF written THEN PushStep(request_timelines, entry)
                ELSE request_timelines
          /\ hist' = [hist EXCEPT
                        !.steps_performed = @ + 1,
                        !.writes_ok = @ + (IF written THEN 1 ELSE 0),
                        !.pipe_raised = @ \/ (p = "pipeline" /\ ~ok
                                              /\ pc[p] # "error_ats"),
                        !.err_write = IF pc[p] = "error_ats"
                                      THEN (IF written THEN "ok" ELSE "lost")
                                      ELSE @,
                        !.gen_log = IF written
                                    THEN Append(@, [user_type |-> ats[p].user_type,
                                                    groq |-> ats[p].groq])
                                    ELSE @]
    /\ ats' = [ats EXCEPT ![p] = NoFrame]
    /\ pc' = [pc EXCEPT ![p] = AfterAts(pc[p])]
    /\ UNCHANGED <<groq_faults, create_pc, request_data, service_requests, user_requests,
                   init_msg, hung, pipe_exc, worker_call>>
    /\ UNCHANGED otherVars

(***************************************************************************)
(* _process_request_pipeline                                               *)
(***************************************************************************)
MockWorkers == {"CG_001", "CG_002"}

\* a faulty variant: the handler logs the exception and starts the pipeline again
PipelineHandler_Retry(e) ==
    /\ pipe_exc' = e
    /\ ats' = ats
    /\ pc' = [pc EXCEPT !["pipeline"] = "scheduled"]
    /\ hist' = [hist EXCEPT !.pipe_raised = TRUE]

\* except Exception as e: await self._add_timeline_step(request_id,
\* "processing_error", user_type, {"error": str(e)})
PipelineHandler(e) ==
    /\ pipe_exc' = e
    /\ ats' = [ats EXCEPT !["pipeline"] =
                  Frame("processing_error", request_data.user_type, e)]
    /\ pc' = [pc EXCEPT !["pipeline"] = "error_ats"]
    /\ hist' = [hist EXCEPT !.pipe_raised = TRUE]

\* the task starts: step 1 when images were given, else step 2
PipelineStart ==
    /\ pc["pipeline"] = "scheduled"
    /\ IF request_data.images
       THEN /\ ats' = [ats EXCEPT !["pipeline"] =
                          Frame("ai_analyzing", request_data.user_type,
                                "images_count")]
            /\ pc' = [pc EXCEPT !["pipeline"] = "analyzing_ats"]
       ELSE /\ ats' = [ats EXCEPT !["pipeline"] =
                          Frame("worker_matching", request_data.user_type,
                                "location")]
            /\ pc' = [pc EXCEPT !["pipeline"] = "matching_ats"]
    /\ UNCHANGED <<groq_faults, create_pc, request_data, service_requests, user_requests,
                   request_timelines, init_msg, hung, pipe_exc, worker_call,
                   db_faults, hist>>
    /\ UNCHANGED otherVars

\* analysis_result = await self.mitra.analyze_waste_image(...) (the mock
\* analysis, priority "medium"); await self._update_request_analysis(...)
PipelineUpdateAnalysis ==
    /\ pc["pipeline"] = "update_analysis"
    /\ \E ok \in DbOutcomes :
          /\ Fault(ok)
          /\ IF ok
             THEN /\ service_requests' =
                        [service_requests EXCEPT !.waste_analysis = "plastic",
                                                 !.priority = "medium"]
                  /\ ats' = [ats EXCEPT !["pipeline"] =
                                Frame("worker_matching", request_data.user_type,
                                      "location")]
                  /\ pc' = [pc EXCEPT !["pipeline"] = "matching_ats"]
                  /\ UNCHANGED <<pipe_exc, hist>>
             ELSE /\ PipelineHandler("analysis update failed")
                  /\ UNCHANGED service_requests
    /\ UNCHANGED <<groq_faults, create_pc, request_data, user_requests, request_timelines,
                   init_msg, hung, worker_call>>
    /\ UNCHANGED otherVars

\* a faulty variant: the assignment writes the document without its status
AssignWorker_NoStatus(doc, w) ==
    [doc EXCEPT !.assigned_worker = w]

\* _simulate_worker_assignment: update_one({"$set": {"assigned_worker": ...,
\* "status": "worker_assigned", ...}})
AssignWorker(doc, w) ==
    [doc EXCEPT !.assigned_worker = w, !.status = "worker_assigned"]

\* worker_data = await self._simulate_worker_assignment(request_id)
PipelineAssignWorker ==
    /\ pc["pipeline"] = "assign_worker"
    /\ \E ok \in DbOutcomes, w \in MockWorkers :
          /\ Fault(ok)
          /\ IF ok
             THEN /\ service_requests' = AssignWorker(service_requests, w)
                  /\ ats' = [ats EXCEPT !["pipeline"] =
                                Frame("worker_assigned", request_data.user_type, w)]
                  /\ pc' = [pc EXCEPT !["pipeline"] = "assigned_ats"]
                  /\ UNCHANGED <<pipe_exc, hist>>
             ELSE /\ PipelineHandler("worker assignment failed")
                  /\ UNCHANGED service_requests
    /\ UNCHANGED <<groq_faults, create_pc, request_data, user_requests, request_timelines,
                   init_msg, hung, worker_call>>
    /\ UNCHANGED otherVars

\* update_one({"request_id": request_id}, {"$set": {"status": status, ...}})
_update_request_status(doc, status) ==
    [doc EXCEPT !.status = status]

\* await self._update_request_status(request_id, "worker_assigned")
PipelineUpdateStatus ==
    /\ pc["pipeline"] = "update_status"
    /\ \E ok \in DbOutcomes :
          /\ Fault(ok)
          /\ IF ok
             THEN /\ service_requests' =
                        _update_request_status(service_requests, "worker_assigned")
                  /\ pc' = [pc EXCEPT !["pipeline"] = "done"]
                  /\ UNCHANGED <<ats, pipe_exc, hist>>
             ELSE /\ PipelineHandler("status update failed")
                  /\ UNCHANGED service_requests
    /\ UNCHANGED <<groq_faults, create_pc, request_data, user_requests, request_timelines,
                   init_msg, hung, worker_call>>
    /\ UNCHANGED otherVars

(***************************************************************************)
(* update_request_progress (used by workers)                               *)
(***************************************************************************)
\* the call, once the request id has been handed out:
\* await self._add_timeline_step(request_id, step, user_type, data)
WorkerCall ==
    /\ create_pc = "returned"
    /\ pc["worker"] = "idle"
    /\ worker_call.n < MaxWorkerCalls
    /\ \E step \in WorkerSteps :
          /\ worker_call' = [n |-> worker_call.n + 1, step |-> step,
                             raised |-> FALSE]
          /\ ats' = [ats EXCEPT !["worker"] = Frame(step, "worker", "data")]
    /\ pc' = [pc EXCEPT !["worker"] = "progress_ats"]
    /\ UNCHANGED <<groq_faults, create_pc, request_data, service_requests, user_requests,
                   request_timelines, init_msg, hung, pipe_exc, db_faults, hist>>
    /\ UNCHANGED otherVars

\* await self._update_request_status(request_id, step); a failure is re-raised
\* to the caller by the outer except
WorkerUpdateStatus ==
    /\ pc["worker"] = "status_update"
    /\ \E ok \in DbOutcomes :
          /\ Fault(ok)
          /\ IF ok
             THEN /\ service_requests' =
                        _update_request_status(service_requests, worker_call.step)
                  /\ pc' = [pc EXCEPT !["worker"] =
                               IF worker_call.step = "completed"
                               THEN "completion_get" ELSE "idle"]
                  /\ UNCHANGED worker_call
             ELSE /\ worker_call' = [worker_call EXCEPT !.raised = TRUE]
                  /\ pc' = [pc EXCEPT !["worker"] = "idle"]
                  /\ UNCHANGED service_requests
    /\ UNCHANGED <<groq_faults, create_pc, request_data, user_requests, request_timelines,
                   ats, init_msg, hung, pipe_exc, hist>>
    /\ UNCHANGED otherVars

\* _handle_request_completion: request = await self.get_request_by_id(...);
\* get_request_by_id returns None when the read raises, and the handler returns
WorkerCompletionGet ==
    /\ pc["worker"] = "completion_get"
    /\ \E ok \in DbOutcomes :
          /\ Fault(ok)
          /\ pc' = [pc EXCEPT !["worker"] =
                       IF ok /\ service_requests.exists
                       THEN "completion_user" ELSE "idle"]
    /\ UNCHANGED <<groq_faults, create_pc, request_data, service_requests, user_requests,
                   request_timelines, ats, init_msg, hung, pipe_exc,
                   worker_call, hist>>
    /\ UNCHANGED otherVars

\* await self._update_user_requests(user_id, request_id, "complete"): no upsert
WorkerCompletionUser ==
    /\ pc["worker"] = "completion_user"
    /\ \E ok \in DbOutcomes :
          /\ Fault(ok)
          /\ user_requests' =
                IF ok /\ user_requests.exists
                THEN [user_requests EXCEPT !.active_requests = @ - 1,
                                           !.completed_requests = @ + 1]
                ELSE user_requests
    /\ pc' = [pc EXCEPT !["worker"] = "completion_update"]
    /\ UNCHANGED <<groq_faults, create_pc, request_data, service_requests,
                   request_timelines, ats, init_msg, hung, pipe_exc,
                   worker_call, hist>>
    /\ UNCHANGED otherVars

\* update_one({"$set": {"status": "completed", "completion_data": ...,
\* "environmental_impact": ...}}), then the "impact_calculated" step; a
\* failure is logged by the except of _handle_request_completion
WorkerCompletionUpdate ==
    /\ pc["worker"] = "completion_update"
    /\ \E ok \in DbOutcomes :
          /\ Fault(ok)
          /\ IF ok
             THEN /\ service_requests' =
                        [service_requests EXCEPT !.status = "completed",
                                                 !.environmental_impact = "impact"]
                  /\ ats' = [ats EXCEPT !["worker"] =
                                Frame("impact_calculated",
                                      service_requests.user_type, "impact")]
                  /\ pc' = [pc EXCEPT !["worker"] = "impact_ats"]
             ELSE /\ pc' = [pc EXCEPT !["worker"] = "idle"]
                  /\ UNCHANGED <<service_requests, ats>>
    /\ UNCHANGED <<groq_faults, create_pc, request_data, user_requests, request_timelines,
                   init_msg, hung, pipe_exc, worker_call, hist>>
    /\ UNCHANGED otherVars

(***************************************************************************)
(* The request lifecycle.                                                  *)
(***************************************************************************)
Next ==
    \/ CreateCall
    \/ CreateGenerateId
    \/ CreateInsert
    \/ CreateUpdateUser
    \/ CreateInitGenerate
    \/ CreateInitHang
    \/ CreateInitInsert
    \/ CreateTaskAndReturn
    \/ PipelineStart
    \/ PipelineUpdateAnalysis
    \/ PipelineAssignWorker
    \/ PipelineUpdateStatus
    \/ WorkerCall
    \/ WorkerUpdateStatus
    \/ WorkerCompletionGet
    \/ WorkerCompletionUser
    \/ WorkerCompletionUpdate
    \/ \E p \in Procs : AtsGenerate(p)
    \/ \E p \in Procs : AtsHang(p)
    \/ \E p \in Procs : AtsPush(p)

Spec == Init /\ [][Next]_vars

\* the steps the event loop itself takes: every ready coroutine is resumed
CreateRun ==
    \/ CreateGenerateId
    \/ CreateInsert
    \/ CreateUpdateUser
    \/ CreateInitGenerate
    \/ CreateInitInsert
    \/ CreateTaskAndReturn

PipelineRun ==
    \/ PipelineStart
    \/ PipelineUpdateAnalysis
    \/ PipelineAssignWorker
    \/ PipelineUpdateStatus
    \/ AtsGenerate("pipeline")
    \/ AtsPush("pipeline")

WorkerRun ==
    \/ WorkerUpdateStatus
    \/ WorkerCompletionGet
    \/ WorkerCompletionUser
    \/ WorkerCompletionUpdate
    \/ AtsGenerate("worker")
    \/ AtsPush("worker")

\* the lifecycle under the event loop's scheduling: a coroutine that can be
\* resumed is resumed; calls by users and a collaborator's silence are not forced
FairSpec ==
    Spec /\ WF_vars(CreateRun) /\ WF_vars(PipelineRun) /\ WF_vars(WorkerRun)

TypeOK ==
    /\ create_pc \in {"idle", "gen_id", "insert", "update_user", "init_gen",
                      "init_insert", "create_task", "returned", "raised"}
    /\ pc["pipeline"] \in {"none", "scheduled", "analyzing_ats",
                           "update_analysis", "matching_ats", "assign_worker",
                           "assigned_ats", "update_status", "done",
                           "error_ats", "halted"}
    /\ pc["worker"] \in {"idle", "progress_ats", "status_update",
                         "completion_get", "completion_user",
                         "completion_update", "impact_ats"}
    /\ db_faults + groq_faults \in 0..MaxFaults
    /\ worker_call.n \in 0..MaxWorkerCalls

(***************************************************************************)
(* create_service_request, several calls: the request ids.  The calls are   *)
(* followed through _generate_request_id and the insert of the request      *)
(* document; what a call does after its insert leaves db.service_requests   *)
(* alone.                                                                   *)
(***************************************************************************)
IdInProgress == {c \in Callers : id_call[c].pc \in {"gen_id", "insert"}}

\* what a database call of these calls may do
IdDbOutcomes == IF id_faults < MaxFaults THEN {TRUE, FALSE} ELSE {TRUE}

\* a call of create_service_request; overlap tells the calls that ran while
\* another call was under way
IdCall(c) ==
    /\ id_call[c].pc = "idle"
    /\ id_call' = [d \in Callers |->
                      IF d = c
                      THEN [id_call[c] EXCEPT !.pc = "gen_id",
                                              !.overlap = IdInProgress # {}]
                      ELSE IF d \in IdInProgress
                           THEN [id_call[d] EXCEPT !.overlap = TRUE]
                           ELSE id_call[d]]
    /\ UNCHANGED <<id_store, id_faults>>
    /\ UNCHANGED <<reqVars, binVars, prioVars, calcVars, trkVars>>

\* request_id = await self._generate_request_id(): the count query, then the
\* id made of what it returned
IdGenerate(c) ==
    /\ id_call[c].pc = "gen_id"
    /\ \E ok \in IdDbOutcomes, uuid8 \in UuidSuffixes :
          LET count == Cardinality({i \in 1..Len(id_store) :
                                       MatchesYear(id_store[i], YEAR)})
              request_id == _generate_request_id(ok, count, uuid8)
          IN /\ id_call' =
                   [id_call EXCEPT ![c] =
                       [@ EXCEPT !.pc = IF request_id = "Exception"
                                        THEN "raised" ELSE "insert",
                                 !.request_id = request_id,
                                 !.count_ok = ok,
                                 !.count = count,
                                 !.seen = Len(id_store)]]
             /\ id_faults' = id_faults + (IF ok THEN 0 ELSE 1)
    /\ UNCHANGED id_store
    /\ UNCHANGED <<reqVars, binVars, prioVars, calcVars, trkVars>>

\* a faulty variant: the document is written with
\* update_one({"request_id": ...}, upsert=True), so an id is stored once
IdInsert_Upsert(c) ==
    /\ id_call[c].pc = "insert"
    /\ \E ok \in IdDbOutcomes :
          /\ id_faults' = id_faults + (IF ok THEN 0 ELSE 1)
          /\ id_store' =
                IF ok /\ \A i \in 1..Len(id_store) :
                             id_store[i] # id_call[c].request_id
                THEN Append(id_store, id_call[c].request_id)
                ELSE id_store
          /\ id_call' = [id_call EXCEPT ![c].pc = IF ok THEN "done" ELSE "raised"]
    /\ UNCHANGED <<reqVars, binVars, prioVars, calcVars, trkVars>>

\* await self.db[self.requests_collection].insert_one(request_data): the
\* collection has no unique index on request_id; a failure is re-raised
IdInsert(c) ==
    /\ id_call[c].pc = "insert"
    /\ \E ok \in IdDbOutcomes :
          /\ id_faults' = id_faults + (IF ok THEN 0 ELSE 1)
          /\ id_store' = IF ok THEN Append(id_store, id_call[c].request_id)
                         ELSE id_store
          /\ id_call' = [id_call EXCEPT ![c].pc = IF ok THEN "done" ELSE "raised"]
    /\ UNCHANGED <<reqVars, binVars, prioVars, calcVars, trkVars>>

IdNext ==
    \/ \E c \in Callers : IdCall(c)
    \/ \E c \in Callers : IdGenerate(c)
    \/ \E c \in Callers : IdInsert(c)

IdSpec == Init /\ [][IdNext]_vars

(***************************************************************************)
(* create_service_request and update_request_progress(..., "completed"),   *)
(* several requests: the request documents as inserted and the tracking     *)
(* documents of db.user_requests.  The calls run one after the other; the   *)
(* timeline and the pipeline, which write neither the tracking documents    *)
(* nor the document being inserted, are followed in Spec.                   *)
(***************************************************************************)
\* additional_data or {}: no mapping, or one of these
NoAdditionalData == [k \in {} |-> None]

AdditionalDatas ==
    {NoAdditionalData, [location |-> "Benz Circle"],
     [request_id |-> "WR_2025_777"], [user_id |-> "user_2"],
     [status |-> "completed"], [assigned_worker |-> "CG_001"]}

\* {**request_data, **additional_data}: a key of the second mapping takes
\* the place of the same key of the first
Merge(fields, additional_data) ==
    [k \in DOMAIN fields \cup DOMAIN additional_data |->
        IF k \in DOMAIN additional_data THEN additional_data[k]
        ELSE fields[k]]

\* the database call of a call that raises, if any
TrkFaults(calls) == IF trk_faults < MaxFaults THEN calls \cup {"none"}
                    ELSE {"none"}

\* find_one({"request_id": request_id}): the place of the first document
\* with that id, 0 when there is none
find_one(collection, request_id) ==
    IF \E i \in 1..Len(collection) : collection[i].request_id = request_id
    THEN CHOOSE i \in 1..Len(collection) :
            /\ collection[i].request_id = request_id
            /\ \A j \in 1..(i - 1) : collection[j].request_id # request_id
    ELSE 0

\* update_one({"request_id": ...}, {"$set": {"status": status}})
SetStatus(collection, request_id, status) ==
    LET i == find_one(collection, request_id)
    IN IF i = 0 THEN collection
       ELSE [collection EXCEPT ![i] = [@ EXCEPT !.status = status]]

\* create_service_request(user_id, ..., additional_data): the id, the
\* document, its insert (a failure is raised to the caller) and the "add" of
\* _update_user_requests (an upsert; a failure is logged)
TrackCreate ==
    /\ Len(trk_calls) < MaxCreateCalls
    /\ \E user_id \in Users, additional_data \in AdditionalDatas,
          fault \in TrkFaults({"count", "insert", "user"}) :
          LET count == Cardinality({i \in 1..Len(trk_store) :
                                       MatchesYear(trk_store[i].request_id,
                                                   YEAR)})
              request_id == _generate_request_id(fault # "count", count,
                                                 "3F2A9C1B")
              document ==
                  Merge([request_id |-> request_id, user_id |-> user_id,
                         status |-> "submitted", location |-> None,
                         assigned_worker |-> None],
                        additional_data)
          IN /\ trk_faults' = trk_faults + (IF fault = "none" THEN 0 ELSE 1)
             /\ trk_store' = IF fault = "insert" THEN trk_store
                             ELSE Append(trk_store, document)
             /\ trk_user' =
                   IF fault \in {"insert", "user"} THEN trk_user
                   ELSE [trk_user EXCEPT ![user_id] =
                            [@ EXCEPT !.exists = TRUE,
                                      !.total_requests = @ + 1,
                                      !.active_requests = @ + 1]]
             /\ trk_calls' =
                   Append(trk_calls,
                          [user_id |-> user_id, request_id |-> request_id,
                           raised |-> fault = "insert",
                           inserted |-> document])
    /\ UNCHANGED trk_completions
    /\ UNCHANGED <<reqVars, binVars, idVars, prioVars, calcVars>>

\* the request ids create_service_request has returned
ReturnedIds ==
    {trk_calls[k].request_id :
        k \in {c \in 1..Len(trk_calls) : ~trk_calls[c].raised}}

\* update_request_progress(request_id, "completed", data):
\* _update_request_status (a failure is raised to the caller), then
\* _handle_request_completion: get_request_by_id (None when the read fails),
\* the "complete" of _update_user_requests for the user of the document
\* (no upsert; a failure is logged) and the final update of the request
TrackComplete ==
    /\ Len(trk_completions) < MaxCompletions
    /\ \E request_id \in ReturnedIds,
          fault \in TrkFaults({"status", "get", "user", "update"}) :
          LET found == find_one(trk_store, request_id)
              request == trk_store[found]
          IN /\ trk_faults' = trk_faults + (IF fault = "none" THEN 0 ELSE 1)
             /\ trk_store' =
                   IF fault = "status" THEN trk_store
                   ELSE SetStatus(trk_store, request_id, "completed")
             /\ trk_user' =
                   IF \/ fault \in {"status", "get", "user"}
                      \/ found = 0
                      \/ ~trk_user[request.user_id].exists
                   THEN trk_user
                   ELSE [trk_user EXCEPT ![request.user_id] =
                            [@ EXCEPT !.active_requests = @ - 1,
                                      !.completed_requests = @ + 1]]
             /\ trk_completions' =
                   Append(trk_completions,
                          [request_id |-> request_id,
                           found |-> IF fault \in {"status", "get"}
                                     THEN 0 ELSE found,
                           raised |-> fault = "status"])
    /\ UNCHANGED trk_calls
    /\ UNCHANGED <<reqVars, binVars, idVars, prioVars, calcVars>>

TrackNext ==
    \/ TrackCreate
    \/ TrackComplete

TrackSpec == Init /\ [][TrackNext]_vars

(***************************************************************************)
(* bin_service.py: _calculate_real_priority.  Times are in hours, an        *)
(* average daily waste in hundredths of a kilogram (it is stored rounded to *)
(* two places), a score in hundredths of a point (it is returned rounded to *)
(* two places); the sum is kept exact in 1/1500 of a point.                 *)
(***************************************************************************)
ScoreUnit == 1500

\* round(x, 2) of x = n / ScoreUnit points, in hundredths: to the nearest,
\* a tie to the even one
Round2(n) ==
    LET d == ScoreUnit \div 100
        q == n \div d
        r == n % d
    IN IF 2 * r < d THEN q
       ELSE IF 2 * r > d THEN q + 1
       ELSE IF q % 2 = 0 THEN q ELSE q + 1

Min(a, b) == IF a <= b THEN a ELSE b

\* a faulty variant: the key of the maintenance status is not in the table
status_scores_NoMaintenance(status) ==
    CASE status = "overflowing" -> 20
      [] status = "needs_collection" -> 15
      [] status = "normal" -> 5
      [] OTHER -> 5

\* status_scores.get(status, 5), status = bin_data.get("status", "normal")
status_scores(status) ==
    CASE status = "overflowing" -> 20
      [] status = "needs_collection" -> 15
      [] status = "normal" -> 5
      [] status = "maintenance" -> 0
      [] OTHER -> 5

\* a faulty variant: the time component is not capped
_calculate_real_priority_NoCap(bin_data) ==
    Round2(bin_data.current_fill_level * 600
           + (IF bin_data.last_collection_time # NoTime
              THEN (bin_data.now - bin_data.last_collection_time) * 625
              ELSE 30 * ScoreUnit)
           + status_scores(bin_data.status) * ScoreUnit
           + Min(10 * ScoreUnit, bin_data.avg_daily_waste * 3))

\* score = fill_level / 100 * 40
\*       + (min(30, hours_since / 24 * 10) if last_collection else 30)
\*       + status_scores.get(status, 5) + min(10, avg_daily / 5)
\* bin_data.now is the datetime.utcnow() of the call
_calculate_real_priority(bin_data) ==
    Round2(bin_data.current_fill_level * 600
           + (IF bin_data.last_collection_time # NoTime
              THEN Min(30 * ScoreUnit,
                       (bin_data.now - bin_data.last_collection_time) * 625)
              ELSE 30 * ScoreUnit)
           + status_scores(bin_data.status) * ScoreUnit
           + Min(10 * ScoreUnit, bin_data.avg_daily_waste * 3))

\* the inputs a bin is scored with
FillLevels == 0..100
\* the status values the code writes to a bin or reads from one
BinStatuses == {"active", "normal", "needs_collection", "overflowing",
                "maintenance", "assigned", "worker_assigned"}
\* average daily waste: none, 2.5 kg, 50 kg, 80 kg
AvgDailyWastes == {0, 250, 5000, 8000}

\* one call of _calculate_real_priority(bin_data)
CalculatePriority ==
    /\ prio_out = NoScore
    /\ \E fill_level \in FillLevels, status \in BinStatuses,
          last_collection \in {NoTime} \cup 0..MaxHours,
          avg_daily \in AvgDailyWastes :
          LET bin_data == [current_fill_level |-> fill_level,
                           last_collection_time |-> last_collection,
                           status |-> status, avg_daily_waste |-> avg_daily,
                           now |-> MaxHours]
          IN /\ prio_in' = bin_data
             /\ prio_out' = _calculate_real_priority(bin_data)
    /\ UNCHANGED <<reqVars, binVars, idVars, calcVars, trkVars>>

PriorityNext == CalculatePriority

PrioritySpec == Init /\ [][PriorityNext]_vars

(***************************************************************************)
(* The estimates: bin_service.py _calculate_real_earnings and              *)
(* request_service.py _calculate_environmental_impact.  A weight is in      *)
(* hundredths of a kilogram; co2_saved_kg and trees_equivalent are in       *)
(* hundredths, water_saved_liters in tenths, as the code rounds them.       *)
(***************************************************************************)
Max(a, b) == IF a >= b THEN a ELSE b

\* the bin_type values of the stored bins and of the bonus table
BinTypes == {"commercial", "medical", "office", "residential", "plastic",
             "mixed"}

\* a faulty variant: the fill bonus is not kept from going below 0
_calculate_real_earnings_NoFloor(bin_data) ==
    150 + (bin_data.current_fill_level - 50) * 2
        + (CASE bin_data.bin_type = "commercial" -> 50
             [] bin_data.bin_type = "medical" -> 100
             [] bin_data.bin_type = "office" -> 30
             [] OTHER -> 0)
        + (CASE bin_data.status = "overflowing" -> 100
             [] bin_data.status = "needs_collection" -> 50
             [] OTHER -> 0)

\* base_pay + fill_bonus + type_bonus + urgency_bonus; round(total) of an
\* integer is the integer
_calculate_real_earnings(bin_data) ==
    150 + Max(0, (bin_data.current_fill_level - 50) * 2)
        + (CASE bin_data.bin_type = "commercial" -> 50
             [] bin_data.bin_type = "medical" -> 100
             [] bin_data.bin_type = "office" -> 30
             [] bin_data.bin_type = "residential" -> 0
             [] OTHER -> 0)
        + (CASE bin_data.status = "overflowing" -> 100
             [] bin_data.status = "needs_collection" -> 50
             [] bin_data.status = "normal" -> 0
             [] OTHER -> 0)

\* one call of _calculate_real_earnings(bin_data)
CalculateEarnings ==
    /\ calc_in = NoCalc
    /\ \E fill_level \in FillLevels, bin_type \in BinTypes,
          status \in BinStatuses :
          LET bin_data == [op |-> "_calculate_real_earnings",
                           current_fill_level |-> fill_level,
                           bin_type |-> bin_type, status |-> status]
          IN /\ calc_in' = bin_data
             /\ calc_out' = [op |-> "_calculate_real_earnings",
                             total |-> _calculate_real_earnings(bin_data)]
    /\ UNCHANGED <<reqVars, binVars, idVars, prioVars, trkVars>>

\* waste_collected_kg of a completion payload: 0, 0.13, 2.5, 3.33, 12.5 kg
Weights == {0, 13, 250, 333, 1250}

\* waste_type of a completion payload; "glass" is not in impact_factors
WasteTypes == {"plastic", "organic", "e_waste", "mixed", "glass"}

\* impact_factors: co2_per_kg in tenths, trees_per_kg in hundredths; a type
\* that is not in the table gets the factors of "mixed"
impact_factors(waste_type) ==
    CASE waste_type = "plastic" -> [co2_per_kg |-> 25, trees_per_kg |-> 10]
      [] waste_type = "organic" -> [co2_per_kg |-> 12, trees_per_kg |-> 5]
      [] waste_type = "e_waste" -> [co2_per_kg |-> 40, trees_per_kg |-> 20]
      [] OTHER -> [co2_per_kg |-> 20, trees_per_kg |-> 8]

\* round(n / d): the nearest integer; a decimal tie is settled by the binary
\* value of the float, to either side
RoundDiv(n, d) ==
    IF 2 * (n % d) < d THEN {n \div d}
    ELSE IF 2 * (n % d) > d THEN {n \div d + 1}
    ELSE {n \div d, n \div d + 1}

\* co2_saved in 1/10000 kg and trees_equivalent in 1/100000, before rounding
co2_saved(completion_data) ==
    completion_data.waste_collected_kg
        * impact_factors(completion_data.waste_type).co2_per_kg
        * (IF completion_data.recycled THEN 15 ELSE 10)

trees_equivalent(completion_data) ==
    completion_data.waste_collected_kg
        * impact_factors(completion_data.waste_type).trees_per_kg
        * (IF completion_data.recycled THEN 13 ELSE 10)

\* a faulty variant: the values are cut off after the last place kept
_calculate_environmental_impact_Truncated(completion_data) ==
    {[op |-> "_calculate_environmental_impact",
      co2_saved_kg |-> co2_saved(completion_data) \div 100,
      trees_equivalent |-> trees_equivalent(completion_data) \div 1000,
      water_saved_liters |->
          (completion_data.waste_collected_kg * 15) \div 10]}

\* the summaries _calculate_environmental_impact can return: co2_saved_kg
\* and trees_equivalent rounded to two places, water_saved_liters to one
_calculate_environmental_impact(completion_data) ==
    {[op |-> "_calculate_environmental_impact",
      co2_saved_kg |-> co2, trees_equivalent |-> trees,
      water_saved_liters |-> water] :
        co2 \in RoundDiv(co2_saved(completion_data), 100),
        trees \in RoundDiv(trees_equivalent(completion_data), 1000),
        water \in RoundDiv(completion_data.waste_collected_kg * 15, 10)}

\* one call of _calculate_environmental_impact(completion_data)
CalculateImpact ==
    /\ calc_in = NoCalc
    /\ \E waste_collected \in Weights, waste_type \in WasteTypes,
          recycled \in BOOLEAN :
          LET completion_data == [op |-> "_calculate_environmental_impact",
                                  waste_collected_kg |-> waste_collected,
                                  waste_type |-> waste_type,
                                  recycled |-> recycled]
          IN /\ calc_in' = completion_data
             /\ calc_out' \in _calculate_environmental_impact(completion_data)
    /\ UNCHANGED <<reqVars, binVars, idVars, prioVars, trkVars>>

EstimateNext ==
    \/ CalculateEarnings
    \/ CalculateImpact

EstimateSpec == Init /\ [][EstimateNext]_vars

(***************************************************************************)
(* bin_service.py: create_bins_for_new_worker                              *)
(***************************************************************************)
\* the (area, city) of the registering worker's location; a worker_data
\* without area or city reads as "Unknown Area", "Vijayawada"
Areas == {"Test Colony", "Test Nagar", "Main Market", "Unknown Area"}
Cities == {"Vijayawada", "Guntur"}

\* what get_database() returns: the module's Database manager object, whose
\* attributes are those of class Database (the Motor database is its
\* attribute "database")
DatabaseAttributes ==
    {"client", "database", "is_connected", "connect_to_database",
     "close_database_connection", "create_indexes"}

get_database == "Database"

\* a faulty variant: the Motor database is taken for the manager object, so
\* the collections are found
_ensure_db_connection_Motor(svc) ==
    [svc |-> [db |-> "database.database", bins_collection |-> "bins"],
     raised |-> FALSE]

\* if not self.db: self.db = await get_database();
\*                 self.bins_collection = self.db.bins; ...
\* the attribute lookup raises AttributeError after self.db was assigned
_ensure_db_connection(svc) ==
    IF svc.db = None
    THEN IF "bins" \in DatabaseAttributes
         THEN [svc |-> [db |-> get_database, bins_collection |-> "bins"],
               raised |-> FALSE]
         ELSE [svc |-> [db |-> get_database, bins_collection |-> None],
               raised |-> TRUE]
    ELSE [svc |-> svc, raised |-> FALSE]

\* random.randint over the range of the area's type, by keyword
_calculate_optimal_bin_count(area) ==
    CASE area = "Main Market" -> 15..25
      [] area = "Test Colony" -> 8..15
      [] area = "Test Nagar" -> 8..15
      [] OTHER -> 10..16

\* area.replace(' ', '')[:3].upper()
AreaCode(area) ==
    CASE area = "Main Market" -> "MAI"
      [] area = "Test Colony" -> "TES"
      [] area = "Test Nagar" -> "TES"
      [] OTHER -> "UNK"

\* a document of db.bins, by the fields the operations read or write;
\* batch stands for the _id the insert gives: it tells the documents of one
\* insert_many from those of another
BinDocument(bin_id, area, city, fill_level, batch) ==
    [bin_id |-> bin_id, area |-> area, city |-> city,
     current_fill_level |-> fill_level, last_collection_time |-> NoTime,
     status |-> "active", assigned_worker |-> None, avg_daily_waste |-> 0,
     total_collections |-> 0, collection_history |-> <<>>, batch |-> batch]

\* the documents _generate_area_bins builds and inserts
_generate_area_bins(area, city, bin_count, batch) ==
    {BinDocument(<<"BIN", city, AreaCode(area), i>>, area, city, 0, batch) :
        i \in 1..bin_count}

\* find({"location.area": area, "location.city": city})
get_bins_in_area(area, city) ==
    {b \in bins : b.area = area /\ b.city = city}

\* the calls that have returned
BinCallsDone == {i \in 1..Len(bin_calls) : bin_calls[i].pc = "done"}

\* a call runs from the call to its first database await, and from there when
\* it is resumed; the calls waiting for their count_documents
BinActivations ==
    {[kind |-> "call", area |-> area, city |-> city, i |-> 0] :
        area \in Areas, city \in Cities}
    \cup {[kind |-> "resume", area |-> bin_calls[i].area,
           city |-> bin_calls[i].city, i |-> i] :
            i \in {j \in 1..Len(bin_calls) : bin_calls[j].pc = "counted"}}

\* create_bins_for_new_worker: one run of the coroutine.  The call runs
\* _ensure_db_connection and count_documents: an exception there (the
\* AttributeError of self.db.bins, or of None.count_documents on a later call)
\* is caught by "except Exception" and the call returns [] without having
\* awaited anything.  A call that gets its count waits for it; resumed, it
\* returns the area's bins when it counted some, else generates and inserts.
create_bins_for_new_worker(act) ==
    /\ IF act.kind = "call"
       THEN LET conn == _ensure_db_connection(bin_svc)
                call == [area |-> act.area, city |-> act.city, pc |-> "done",
                         existing |-> 0, result |-> {},
                         stored |-> get_bins_in_area(act.area, act.city),
                         after |-> BinCallsDone]
            IN /\ Len(bin_calls) < MaxBinCalls
               /\ bin_svc' = conn.svc
               /\ bins' = bins
               /\ bin_calls' =
                     Append(bin_calls,
                            IF conn.raised \/ conn.svc.bins_collection = None
                            THEN call
                            ELSE [call EXCEPT
                                    !.pc = "counted",
                                    !.existing =
                                        Cardinality(get_bins_in_area(act.area,
                                                                     act.city))])
       ELSE LET call == bin_calls[act.i] IN
            /\ bin_svc' = bin_svc
            /\ IF call.existing > 0
               THEN /\ bins' = bins
                    /\ bin_calls' =
                          [bin_calls EXCEPT ![act.i] =
                              [call EXCEPT
                                 !.pc = "done",
                                 !.result = get_bins_in_area(act.area, act.city),
                                 !.stored = get_bins_in_area(act.area, act.city)]]
               ELSE \E bin_count \in _calculate_optimal_bin_count(act.area) :
                       LET generated_bins ==
                               _generate_area_bins(act.area, act.city,
                                                   bin_count, act.i)
                       IN /\ bins' = bins \cup generated_bins
                          /\ bin_calls' =
                                [bin_calls EXCEPT ![act.i] =
                                    [call EXCEPT
                                       !.pc = "done",
                                       !.result = generated_bins,
                                       !.stored =
                                           get_bins_in_area(act.area, act.city)
                                               \cup generated_bins]]
    /\ UNCHANGED <<bin_events, bin_last_op, bin_result>>
    /\ UNCHANGED <<reqVars, idVars, prioVars, calcVars, trkVars>>

BinNext == \E act \in BinActivations : create_bins_for_new_worker(act)

BinSpec == Init /\ [][BinNext]_vars

(***************************************************************************)
(* Properties of the request lifecycle.                                    *)
(***************************************************************************)
steps == request_timelines.steps

IsPrefix(a, b) == Len(a) <= Len(b) /\ \A i \in 1..Len(a) : a[i] = b[i]

\* the place of a status in the lifecycle sequence submitted, analyzing,
\* matching, assigned, in-progress, completed (a payment follows completion)
StatusRank(status) ==
    CASE status = "submitted" -> 0
      [] status = "ai_analyzing" -> 1
      [] status = "worker_matching" -> 2
      [] status = "worker_assigned" -> 3
      [] status \in {"en_route", "arrived", "cleanup_started"} -> 4
      [] status \in {"completed", "impact_calculated"} -> 5
      [] status = "payment_processed" -> 6
      [] OTHER -> 0

\* C1: the persisted status of a request never moves back in the lifecycle
\* sequence, whatever the interleaving of the pipeline and the worker calls;
\* a completed request stays completed.
C1_ForwardOnlyStatus ==
    [][service_requests.exists =>
          StatusRank(service_requests'.status)
              >= StatusRank(service_requests.status)]_vars

ErrorEntries == {i \in 1..Len(steps) : steps[i].step = "processing_error"}

C4_GenerationFallback ==
    /\ Len(hist.gen_log) = Len(steps)
    /\ \A i \in 1..Len(steps) :
          hist.gen_log[i].groq = "raise" =>
              steps[i].ai_message =
                  _get_fallback_message(hist.gen_log[i].user_type, steps[i].step)
    /\ \A p \in Procs :
          ats[p].groq = "raise" =>
              /\ ats[p].phase = "push"
              /\ ats[p].ai_message =
                    _get_fallback_message(ats[p].user_type, ats[p].step)
    /\ init_msg.groq = "raise" =>
          /\ create_pc \notin {"init_gen", "raised"}
          /\ init_msg.ai_message =
                _get_fallback_message(request_data.user_type, "submitted")
          /\ request_data.user_type = "citizen" =>
                init_msg.ai_message = "MITRA: Request received! Processing..."
    /\ pipe_exc \in {None, "analysis update failed", "worker assignment failed",
                     "status update failed"}

\* generation failed for "submitted", its entry carries the fallback, and the
\* lifecycle went on to "ai_analyzing"
C4_Witness ==
    /\ Len(steps) >= 2
    /\ hist.gen_log[1].groq = "raise"
    /\ steps[1].ai_message = "MITRA: Request received! Processing..."
    /\ steps[2].step = "ai_analyzing"

\* the visibility flag of an entry for a role (the submitter reads as
\* "citizen", the flag of the submitter is user_visible)
VisibleTo(s, role) ==
    CASE role \in {"citizen", "user"} -> s.user_visible
      [] role = "worker" -> s.worker_visible
      [] role = "government" -> s.government_visible

\* C5: get_request_timeline returns to a role exactly the entries whose
\* visibility flag for that role is true, in append order.
C5_RoleFilteredTimeline ==
    \A role \in Roles :
        get_request_timeline(role)
            = SelectSeq(steps, LAMBDA s : VisibleTo(s, role))

StepRank(step) ==
    CASE step = "submitted" -> 0
      [] step = "ai_analyzing" -> 1
      [] step = "worker_matching" -> 2
      [] step = "worker_assigned" -> 3
      [] step \in {"en_route", "arrived", "cleanup_started"} -> 4
      [] step \in {"completed", "impact_calculated"} -> 5
      [] step = "payment_processed" -> 6
      [] OTHER -> 0

\* C7: the step names of a timeline, read in append order, follow the
\* lifecycle order: no worker step precedes a step of the driver.
C7_TimelineFollowsLifecycle ==
    \A i, j \in 1..Len(steps) :
        (i < j /\ steps[i].step # "processing_error"
               /\ steps[j].step # "processing_error")
            => StepRank(steps[i].step) <= StepRank(steps[j].step)

\* the driver finishes the append of a step S of its own
DriverAppends(S) ==
    /\ ats["pipeline"].phase = "push"
    /\ ats["pipeline"].step = S
    /\ ats'["pipeline"].phase = "none"

\* C8 as stated: when the driver finishes the transition into a state S, the
\* persisted status is S.
C8_StatusTracksEveryStep ==
    [][\A S \in {"ai_analyzing", "worker_matching", "worker_assigned"} :
          DriverAppends(S) => service_requests'.status = S]_vars

\* C8 amended: the driver persists the status for the assigned transition
\* only: _simulate_worker_assignment writes "worker_assigned" before the
\* entry is appended and _update_request_status writes it again as the driver
\* finishes; the "ai_analyzing" and "worker_matching" transitions append their
\* entry, which becomes the timeline's current_step, and leave the status.
C8_StatusOnAssignmentOnly ==
    [][/\ \A S \in {"ai_analyzing", "worker_matching", "worker_assigned"} :
             DriverAppends(S) =>
                 /\ service_requests' = service_requests
                 /\ steps' # steps => request_timelines'.current_step = S
       /\ (pc["pipeline"] = "assign_worker" /\ pc'["pipeline"] = "assigned_ats")
             => /\ service_requests'.status = "worker_assigned"
                /\ service_requests'.assigned_worker \in MockWorkers
       /\ (pc["pipeline"] = "update_status" /\ pc'["pipeline"] = "done")
             => service_requests'.status = "worker_assigned"]_vars

\* the driver has finished and the status is the assigned one
C8_Witness ==
    /\ pc["pipeline"] = "done"
    /\ service_requests.status = "worker_assigned"
    /\ \E i \in 1..Len(steps) : steps[i].step = "worker_assigned"

\* C9: a generation call that is outstanding for a step, answered or not,
\* leads to the step's append: the wait is bounded.
C9_BoundedGenerationCall ==
    \A p \in Procs : (ats[p].phase = "gen") ~> (ats[p].phase = "push")

\* C23: once update_request_progress(request, "completed", payload) has
\* returned for a stored request (and the pipeline task is over), the
\* request's status is "completed", the impact summary is stored on the
\* request, and the last entry of the timeline is the one carrying the summary.
C23_CompletionPersistence ==
    (/\ worker_call.n > 0 /\ worker_call.step = "completed"
     /\ ~worker_call.raised
     /\ pc["worker"] = "idle"
     /\ pc["pipeline"] \in {"done", "halted"}
     /\ service_requests.exists)
        => /\ service_requests.status = "completed"
           /\ service_requests.environmental_impact = "impact"
           /\ steps # <<>>
           /\ steps[Len(steps)].step = "impact_calculated"

\* C27: when the insert of the request document fails,
\* create_service_request raises (it goes on only with the document stored),
\* and then no timeline document exists, the user's tracking document is
\* untouched and no pipeline task has been started.
C27_CreationFailureNoTrace ==
    /\ create_pc \in {"update_user", "init_gen", "init_insert", "create_task",
                      "returned"}
          => service_requests.exists
    /\ create_pc = "raised"
          => /\ ~service_requests.exists
             /\ ~request_timelines.exists
             /\ user_requests = NoUserRequests
             /\ pc["pipeline"] = "none"
             /\ hist.steps_performed = 0

\* the insert has failed and the call has raised
C27_Witness ==
    /\ create_pc = "raised"
    /\ db_faults = 1
    /\ request_data.request_id = "WR_2025_001"

\* C28: when a run of _process_request_pipeline is over (and no worker has
\* reported on the request), exactly one of two outcomes holds: the request
\* has status "worker_assigned" and the timeline has a "worker_assigned"
\* entry, or the last entry of the timeline is "processing_error".
C28_PipelineOutcome ==
    (pc["pipeline"] \in {"done", "halted"} /\ worker_call.n = 0)
        => LET assigned ==
                   /\ service_requests.status = "worker_assigned"
                   /\ \E i \in 1..Len(steps) : steps[i].step = "worker_assigned"
               failed ==
                   /\ steps # <<>>
                   /\ steps[Len(steps)].step = "processing_error"
           IN (assigned /\ ~failed) \/ (failed /\ ~assigned)

(***************************************************************************)
(* The operations on the stored bins: worker/routes.py writes db.bins       *)
(* through database.database (create_bins_near_location and the job         *)
(* acceptance), bin_service.py through the collection _ensure_db_connection *)
(* binds.                                                                   *)
(***************************************************************************)
\* datetime.now().strftime('%Y%m%d') of the day followed
TODAY == "20250101"

\* random.randint(60, 95) for each of the six bins: two of the draws
FillDraws == {<<60, 60, 60, 60, 60, 60>>, <<60, 74, 75, 76, 90, 95>>}

\* the clock readings and collection times used, in hours
BinTimes == {10, MaxHours}

\* waste_collected_kg, in hundredths of a kilogram
WasteAmounts == {1250}

\* the fill levels citizens report
ReportedFillLevels == {0, 75, 76, 91}

WorkerIds == {"worker_1"}

\* update_one(filter, update): the collection after the update, which the
\* first document matching bin_id gets (the collection as it was when none
\* matches); update gives what each document becomes
update_one(collection, bin_id, update) ==
    LET matching == {b \in collection : b.bin_id = bin_id}
    IN IF matching = {} THEN {collection}
       ELSE {(collection \ {b}) \cup {update[b]} : b \in matching}

\* the bin ids the operations are called with: those of the first and the
\* last bin of a stored batch, and one that no bin has
TargetBinIds ==
    {b.bin_id : b \in {c \in bins : c.bin_id[5] \in {1, 6}}}
        \cup {<<"BIN", "NOWHERE", "NOW", TODAY, 1>>}

\* create_bins_near_location: with more than 5 bins stored for the area the
\* stored active ones are returned, else six bins are generated and saved
create_bins_near_location ==
    /\ bin_events < MaxBinEvents
    /\ \E area \in Areas, city \in Cities, fills \in FillDraws :
          LET existing_bins_count ==
                  Cardinality(get_bins_in_area(area, city))
              new_bins ==
                  {BinDocument(<<"BIN", city, AreaCode(area), TODAY, i>>,
                               area, city, fills[i], bin_events + 1) :
                      i \in 1..6}
          IN /\ bins' = IF existing_bins_count > 5 THEN bins
                        ELSE bins \cup new_bins
             /\ bin_last_op' = [op |-> "create_bins_near_location",
                                bin_id |-> None, time |-> 0, before |-> bins,
                             collected |-> bin_last_op.collected]
    /\ bin_events' = bin_events + 1
    /\ UNCHANGED <<bin_svc, bin_calls, bin_result>>
    /\ UNCHANGED <<reqVars, idVars, prioVars, calcVars, trkVars>>

\* accept_bin_collection_immediate_fix: the update of the bin, True returned
\* whatever happens
accept_bin_collection_immediate_fix ==
    /\ bin_events < MaxBinEvents
    /\ \E bin_id \in TargetBinIds, worker_id \in WorkerIds,
          ok \in BOOLEAN :
          /\ \E updated \in
                   update_one(bins, bin_id,
                              [b \in bins |->
                                  [b EXCEPT
                                     !.assigned_worker = worker_id,
                                     !.status = "worker_assigned"]]) :
                bins' = IF ok THEN updated ELSE bins
          /\ bin_last_op' = [op |-> "accept_bin_collection_immediate_fix",
                             bin_id |-> bin_id, time |-> 0, before |-> bins,
                             collected |-> bin_last_op.collected]
    /\ bin_events' = bin_events + 1
    /\ UNCHANGED <<bin_svc, bin_calls, bin_result>>
    /\ UNCHANGED <<reqVars, idVars, prioVars, calcVars, trkVars>>

\* accept_bin_collection: "if ... and database.database:" takes the truth
\* value of the Motor database, which the driver either gives as True or
\* refuses with NotImplementedError; the except swallows the refusal
accept_bin_collection ==
    /\ bin_events < MaxBinEvents
    /\ \E bin_id \in TargetBinIds, worker_id \in WorkerIds,
          truth \in {"True", "NotImplementedError"} :
          /\ \E updated \in
                   update_one(bins, bin_id,
                              [b \in bins |->
                                  [b EXCEPT
                                     !.assigned_worker = worker_id,
                                     !.status = "assigned"]]) :
                bins' = IF truth = "True" THEN updated ELSE bins
          /\ bin_last_op' = [op |-> "accept_bin_collection",
                             bin_id |-> bin_id, time |-> 0, before |-> bins,
                             collected |-> bin_last_op.collected]
    /\ bin_events' = bin_events + 1
    /\ UNCHANGED <<bin_svc, bin_calls, bin_result>>
    /\ UNCHANGED <<reqVars, idVars, prioVars, calcVars, trkVars>>

\* timedelta.days of a difference of hours
Days(hours) == IF hours >= 0 THEN hours \div 24 ELSE -((-hours + 23) \div 24)

RECURSIVE TotalWaste(_)
TotalWaste(history) ==
    IF history = <<>> THEN 0
    ELSE history[1].waste_collected_kg + TotalWaste(Tail(history))

\* _recalculate_bin_analytics: the average daily waste of a bin with a
\* collection history
_recalculate_bin_analytics(b) ==
    LET history == b.collection_history
        total_days == Days(history[1].collection_time
                           - history[Len(history)].collection_time)
    IN IF history = <<>> THEN b
       ELSE [b EXCEPT !.avg_daily_waste =
                IF Len(history) > 1
                THEN TotalWaste(history)
                        \div (IF total_days > 1 THEN total_days ELSE 1)
                ELSE history[1].waste_collected_kg]

\* update_bin_status_from_collection: an exception of
\* _ensure_db_connection, or of None.update_one, ends the call in its except;
\* with a collection bound, the bin is emptied, stamped with the collection
\* time, set to "normal", its history extended and its analytics recalculated
update_bin_status_from_collection ==
    /\ bin_events < MaxBinEvents
    /\ \E bin_id \in TargetBinIds, collection_time \in BinTimes,
          waste_collected \in WasteAmounts :
          LET conn == _ensure_db_connection(bin_svc) IN
          /\ bin_svc' = conn.svc
          /\ IF conn.raised \/ conn.svc.bins_collection = None
             THEN bins' = bins
             ELSE \E updated \in
                      update_one(bins, bin_id,
                          [b \in bins |-> _recalculate_bin_analytics(
                              [b EXCEPT
                                 !.current_fill_level = 0,
                                 !.last_collection_time = collection_time,
                                 !.status = "normal",
                                 !.total_collections = @ + 1,
                                 !.collection_history =
                                     Append(@, [collection_time |->
                                                    collection_time,
                                                waste_collected_kg |->
                                                    waste_collected])])]) :
                     bins' = updated
          /\ bin_last_op' = [op |-> "update_bin_status_from_collection",
                             bin_id |-> bin_id, time |-> collection_time,
                             before |-> bins,
                             collected |->
                                 IF \E b \in bins : b.bin_id = bin_id
                                 THEN Append(bin_last_op.collected, bin_id)
                                 ELSE bin_last_op.collected]
    /\ bin_events' = bin_events + 1
    /\ UNCHANGED <<bin_calls, bin_result>>
    /\ UNCHANGED <<reqVars, idVars, prioVars, calcVars, trkVars>>

\* update_bin_fill_level_from_reports: the same way into the except; with a
\* collection bound, the fill level reported and the status it stands for
update_bin_fill_level_from_reports ==
    /\ bin_events < MaxBinEvents
    /\ \E bin_id \in TargetBinIds,
          reported_fill_level \in ReportedFillLevels :
          LET conn == _ensure_db_connection(bin_svc)
              status == IF reported_fill_level > 90 THEN "overflowing"
                        ELSE IF reported_fill_level > 75
                             THEN "needs_collection" ELSE "normal"
          IN
          /\ bin_svc' = conn.svc
          /\ IF conn.raised \/ conn.svc.bins_collection = None
             THEN bins' = bins
             ELSE \E updated \in
                      update_one(bins, bin_id,
                          [b \in bins |->
                              [b EXCEPT
                                 !.current_fill_level = reported_fill_level,
                                 !.status = status]]) :
                     bins' = updated
          /\ bin_last_op' = [op |-> "update_bin_fill_level_from_reports",
                             bin_id |-> bin_id, time |-> 0, before |-> bins,
                             collected |-> bin_last_op.collected]
    /\ bin_events' = bin_events + 1
    /\ UNCHANGED <<bin_calls, bin_result>>
    /\ UNCHANGED <<reqVars, idVars, prioVars, calcVars, trkVars>>

\* the filter of get_priority_bins_for_collection; $lt matches no document
\* whose last_collection_time is None
NeedsCollection(b, now) ==
    \/ b.current_fill_level >= 75
    \/ b.status = "needs_collection"
    \/ b.status = "overflowing"
    \/ b.last_collection_time # NoTime
          /\ b.last_collection_time < now - 2 * 24

\* the fields _calculate_real_priority reads of a document, and the clock
BinData(b, now) ==
    [current_fill_level |-> b.current_fill_level,
     last_collection_time |-> b.last_collection_time,
     status |-> b.status, avg_daily_waste |-> b.avg_daily_waste,
     now |-> now]

\* to_list(length=50)
ListLength == 50

\* the lists priority_bins.sort(key=priority_score, reverse=True) can give of
\* the documents found
SortedByPriority(found, now) ==
    {result \in [1..Cardinality(found) ->
                    [bin_id : {b.bin_id : b \in found},
                     batch : {b.batch : b \in found},
                     priority_score :
                         {_calculate_real_priority(BinData(b, now)) :
                             b \in found}]] :
        /\ \A b \in found :
              \E k \in DOMAIN result :
                 /\ result[k].bin_id = b.bin_id
                 /\ result[k].batch = b.batch
                 /\ result[k].priority_score
                       = _calculate_real_priority(BinData(b, now))
        /\ \A k \in DOMAIN result : \A l \in DOMAIN result :
              k < l => result[k].priority_score >= result[l].priority_score}

\* get_priority_bins_for_collection: an exception of _ensure_db_connection,
\* or of None.find, ends the call in its except, which returns []; with a
\* collection bound, up to 50 of the documents of the area that the filter
\* matches, scored and sorted
get_priority_bins_for_collection ==
    /\ bin_events < MaxBinEvents
    /\ \E area \in Areas, city \in Cities, now \in BinTimes :
          LET conn == _ensure_db_connection(bin_svc)
              matching == {b \in get_bins_in_area(area, city) :
                              NeedsCollection(b, now)}
              call == [done |-> TRUE, area |-> area, city |-> city,
                       now |-> now, seen |-> bins, result |-> <<>>]
          IN
          /\ bin_svc' = conn.svc
          /\ IF conn.raised \/ conn.svc.bins_collection = None
             THEN bin_result' = call
             ELSE \E found \in SUBSET matching :
                     /\ Cardinality(found)
                           = Min(ListLength, Cardinality(matching))
                     /\ \E result \in SortedByPriority(found, now) :
                           bin_result' = [call EXCEPT !.result = result]
          /\ bin_last_op' = [op |-> "get_priority_bins_for_collection",
                             bin_id |-> None, time |-> now, before |-> bins,
                             collected |-> bin_last_op.collected]
    /\ bin_events' = bin_events + 1
    /\ UNCHANGED <<bins, bin_calls>>
    /\ UNCHANGED <<reqVars, idVars, prioVars, calcVars, trkVars>>

BinOpsNext ==
    \/ create_bins_near_location
    \/ accept_bin_collection_immediate_fix
    \/ accept_bin_collection
    \/ update_bin_status_from_collection
    \/ update_bin_fill_level_from_reports
    \/ get_priority_bins_for_collection

BinOpsSpec == Init /\ [][BinOpsNext]_vars

C15_CollectionEventEffect ==
    /\ (/\ bin_last_op.op = "update_bin_status_from_collection"
        /\ \E a \in bin_last_op.before : a.bin_id = bin_last_op.bin_id)
          => \A b \in bins :
                b.bin_id = bin_last_op.bin_id
                   => /\ b.current_fill_level = 0
                      /\ b.last_collection_time = bin_last_op.time
    /\ bin_last_op.op \in {"update_bin_fill_level_from_reports",
                           "accept_bin_collection",
                           "accept_bin_collection_immediate_fix",
                           "get_priority_bins_for_collection"}
          => \A b \in bins :
                \E a \in bin_last_op.before :
                   /\ a.bin_id = b.bin_id /\ a.batch = b.batch
                   /\ a.last_collection_time = b.last_collection_time
                   /\ b.current_fill_level = 0
                         => a.current_fill_level = 0

\* C29: once two or more update_bin_status_from_collection calls on one bin
\* are over, the bin's total_collections has grown by the number of the
\* calls, its collection_history has one entry for each, and its
\* avg_daily_waste is the one computed from that history.
C29_ConcurrentCollections ==
    \A b \in bins :
        LET calls == Cardinality({k \in 1..Len(bin_last_op.collected) :
                                     bin_last_op.collected[k] = b.bin_id})
        IN calls >= 2
              => /\ b.total_collections = calls
                 /\ Len(b.collection_history) = calls
                 /\ b.avg_daily_waste
                       = _recalculate_bin_analytics(b).avg_daily_waste

\* C16: the status of every stored bin is one of the declared values: active,
\* needs_collection, overflowing, maintenance.
C16_BinStatusDomain ==
    \A b \in bins :
        b.status \in {"active", "needs_collection", "overflowing",
                      "maintenance"}

\* the bins get_priority_bins_for_collection returned
Returned == {[bin_id |-> bin_result.result[k].bin_id,
              batch |-> bin_result.result[k].batch] :
                k \in DOMAIN bin_result.result}

\* the stored bins of the (area, city) the call was made for
BinsOfCall ==
    {b \in bin_result.seen :
        b.area = bin_result.area /\ b.city = bin_result.city}

\* C17: get_priority_bins_for_collection returns a stored bin of the worker's
\* (area, city) if and only if its fill level is at least 75, or its status
\* is needs_collection or overflowing, or its last collection is more than 48
\* hours back; and it returns no other bin.
C17_QualificationFilter ==
    bin_result.done =>
        /\ \A b \in BinsOfCall :
              [bin_id |-> b.bin_id, batch |-> b.batch] \in Returned
                 <=> \/ b.current_fill_level >= 75
                     \/ b.status \in {"needs_collection", "overflowing"}
                     \/ /\ b.last_collection_time # NoTime
                        /\ bin_result.now - b.last_collection_time > 48
        /\ \A r \in Returned :
              \E b \in BinsOfCall : b.bin_id = r.bin_id /\ b.batch = r.batch

C24_ColdStartBatch ==
    \A i \in BinCallsDone :
        bin_calls[i].existing = 0
            => /\ Cardinality(bin_calls[i].result)
                     \in CASE bin_calls[i].area = "Main Market" -> 15..25
                           [] bin_calls[i].area = "Test Colony" -> 8..15
                           [] bin_calls[i].area = "Test Nagar" -> 8..15
                           [] OTHER -> 10..16
               /\ \A b \in bin_calls[i].result :
                     b.status = "active" /\ b.current_fill_level = 0

StoredThisYear == {i \in 1..Len(id_store) : MatchesYear(id_store[i], YEAR)}

C19_PriorityBounds ==
    (/\ prio_out # NoScore
     /\ prio_in.current_fill_level \in 0..100
     /\ prio_in.last_collection_time = NoTime
           \/ prio_in.last_collection_time <= prio_in.now
     /\ prio_in.avg_daily_waste >= 0)
        => prio_out >= 0 /\ prio_out <= 100 * 100

\* a full, overflowing bin last collected more than three days ago, of 80 kg a
\* day, scores 100
C19_Witness ==
    /\ prio_in.current_fill_level = 100
    /\ prio_in.status = "overflowing"
    /\ prio_in.last_collection_time = 0 /\ prio_in.now = MaxHours
    /\ prio_in.avg_daily_waste = 8000
    /\ prio_out = 100 * 100

\* C20: the status adds 20 points when overflowing, 15 when needing
\* collection, 5 when normal and 0 when under maintenance: an empty bin just
\* collected, with no waste history, scores exactly that, and any bin scores
\* that much more or less than the same bin in normal status.
C20_StatusUrgency ==
    prio_out # NoScore =>
        LET points == CASE prio_in.status = "overflowing" -> 20
                        [] prio_in.status = "needs_collection" -> 15
                        [] prio_in.status = "normal" -> 5
                        [] prio_in.status = "maintenance" -> 0
                        [] OTHER -> -1
            normal == _calculate_real_priority(
                          [prio_in EXCEPT !.status = "normal"])
        IN points >= 0 =>
              /\ prio_out = normal + (points - 5) * 100
              /\ (/\ prio_in.current_fill_level = 0
                  /\ prio_in.last_collection_time = prio_in.now
                  /\ prio_in.avg_daily_waste = 0)
                    => prio_out = points * 100

\* an empty bin under maintenance, just collected, with no waste history,
\* scores 0
C20_Witness ==
    /\ prio_in.status = "maintenance"
    /\ prio_in.current_fill_level = 0
    /\ prio_in.last_collection_time = prio_in.now
    /\ prio_in.avg_daily_waste = 0
    /\ prio_out = 0

(***************************************************************************)
(* Properties of the request documents and of the tracking documents.      *)
(***************************************************************************)
\* the stored requests of a user whose completion has been handled
CompletedOf(u) ==
    {trk_completions[k].found :
        k \in {c \in 1..Len(trk_completions) :
                  /\ trk_completions[c].found # 0
                  /\ trk_store[trk_completions[c].found].user_id = u}}

\* C25: in every state reached by create_service_request and
\* update_request_progress calls, the tracking document of each user has
\* active_requests >= 0 and total_requests = active_requests +
\* completed_requests, and a request completed several times is counted as
\* completed once.
C25_UserCounters ==
    \A u \in Users :
        /\ trk_user[u].active_requests >= 0
        /\ trk_user[u].total_requests
              = trk_user[u].active_requests + trk_user[u].completed_requests
        /\ trk_user[u].completed_requests <= Cardinality(CompletedOf(u))

\* C26: whatever additional_data is passed to create_service_request, the
\* document inserted has the request id returned to the caller, the caller's
\* user id, status "submitted" and no assigned worker.
C26_InitialDocument ==
    \A k \in {c \in 1..Len(trk_calls) : ~trk_calls[c].raised} :
        /\ trk_calls[k].inserted.request_id = trk_calls[k].request_id
        /\ trk_calls[k].inserted.user_id = trk_calls[k].user_id
        /\ trk_calls[k].inserted.status = "submitted"
        /\ trk_calls[k].inserted.assigned_worker = None

(***************************************************************************)
(* Properties of the estimates.                                            *)
(***************************************************************************)
\* C21: the earnings estimate of a bin is 150, plus twice what its fill level
\* is above 50, plus 50, 100, 30 or 0 for a commercial, medical, office or
\* residential bin, plus 100 or 50 for an overflowing bin or one needing
\* collection; it is never below 150.
C21_EarningsEstimate ==
    calc_out.op = "_calculate_real_earnings" =>
        LET fill_bonus == IF calc_in.current_fill_level > 50
                          THEN (calc_in.current_fill_level - 50) * 2 ELSE 0
            type_bonus == CASE calc_in.bin_type = "commercial" -> 50
                            [] calc_in.bin_type = "medical" -> 100
                            [] calc_in.bin_type = "office" -> 30
                            [] calc_in.bin_type = "residential" -> 0
                            [] OTHER -> -1
            urgency_bonus == CASE calc_in.status = "overflowing" -> 100
                               [] calc_in.status = "needs_collection" -> 50
                               [] calc_in.status = "normal" -> 0
                               [] OTHER -> -1
        IN /\ calc_out.total >= 150
           /\ (type_bonus >= 0 /\ urgency_bonus >= 0)
                 => calc_out.total
                       = 150 + fill_bonus + type_bonus + urgency_bonus

\* a full, overflowing medical bin is estimated at 450, an empty one in
\* normal status at no less than 150
C21_Witness ==
    /\ calc_in.op = "_calculate_real_earnings"
    /\ calc_in.current_fill_level = 100
    /\ calc_in.bin_type = "medical"
    /\ calc_in.status = "overflowing"
    /\ calc_out.total = 450

\* C22 as stated: co2_saved_kg is the weight times the CO2 factor of the
\* category, trees_equivalent the weight times its trees factor, times 1.5 and
\* 1.3 when recycled, and water_saved_liters 15 times the weight.
C22_ImpactExact ==
    calc_out.op = "_calculate_environmental_impact" =>
        LET co2 == CASE calc_in.waste_type = "plastic" -> 25
                     [] calc_in.waste_type = "organic" -> 12
                     [] calc_in.waste_type = "e_waste" -> 40
                     [] OTHER -> 20
            trees == CASE calc_in.waste_type = "plastic" -> 10
                       [] calc_in.waste_type = "organic" -> 5
                       [] calc_in.waste_type = "e_waste" -> 20
                       [] OTHER -> 8
        IN /\ calc_out.co2_saved_kg * 100
                 = calc_in.waste_collected_kg * co2
                      * (IF calc_in.recycled THEN 15 ELSE 10)
           /\ calc_out.trees_equivalent * 1000
                 = calc_in.waste_collected_kg * trees
                      * (IF calc_in.recycled THEN 13 ELSE 10)
           /\ calc_out.water_saved_liters * 10
                 = calc_in.waste_collected_kg * 15

\* C22, amended: the three values are those products rounded, co2_saved_kg
\* and trees_equivalent to two decimal places and water_saved_liters to one;
\* 2.5 kg of plastic, not recycled, gives 6.25, 0.25 and 37.5.
C22_ImpactRounded ==
    calc_out.op = "_calculate_environmental_impact" =>
        LET co2 == CASE calc_in.waste_type = "plastic" -> 25
                     [] calc_in.waste_type = "organic" -> 12
                     [] calc_in.waste_type = "e_waste" -> 40
                     [] OTHER -> 20
            trees == CASE calc_in.waste_type = "plastic" -> 10
                       [] calc_in.waste_type = "organic" -> 5
                       [] calc_in.waste_type = "e_waste" -> 20
                       [] OTHER -> 8
            Near(value, exact, unit) ==
                /\ 2 * (value * unit - exact) <= unit
                /\ 2 * (exact - value * unit) <= unit
        IN /\ Near(calc_out.co2_saved_kg,
                   calc_in.waste_collected_kg * co2
                      * (IF calc_in.recycled THEN 15 ELSE 10), 100)
           /\ Near(calc_out.trees_equivalent,
                   calc_in.waste_collected_kg * trees
                      * (IF calc_in.recycled THEN 13 ELSE 10), 1000)
           /\ Near(calc_out.water_saved_liters,
                   calc_in.waste_collected_kg * 15, 10)
           /\ (/\ calc_in.waste_collected_kg = 250
               /\ calc_in.waste_type = "plastic"
               /\ ~calc_in.recycled)
                 => /\ calc_out.co2_saved_kg = 625
                    /\ calc_out.trees_equivalent = 25
                    /\ calc_out.water_saved_liters = 375

\* 0.13 kg of e-waste, recycled: 0.78 kg of CO2 and 0.0338 trees, stored as
\* 0.03, and 1.95 liters of water, stored as 1.9 or 2.0
C22_Witness ==
    /\ calc_in.op = "_calculate_environmental_impact"
    /\ calc_in.waste_collected_kg = 13
    /\ calc_in.waste_type = "e_waste"
    /\ calc_in.recycled
    /\ calc_out.co2_saved_kg = 78
    /\ calc_out.trees_equivalent = 3

=============================================================================
